---- MODULE Spec2Model ----
(***************************************************************************)
(* Model of the "Extract Info" command of image-to-data                    *)
(* (src/src/extract-info.ts): one run of main(), the mode router           *)
(* (decideMode / safeParseRouter) and the output sanitizer                 *)
(* (sanitizeOutput).                                                       *)
(*                                                                         *)
(* Texts are sequences of one-character strings, so that trim, slice,      *)
(* length and the two regular expressions of sanitizeOutput are computed   *)
(* character by character.  Router replies are sequences of JSON lexical   *)
(* tokens, on which JSON.parse and the /\{.*\}/s search are computed.      *)
(*                                                                         *)
(* Environment: the calls into the operating system, the file system, the  *)
(* network and the clipboard (screencapture, readFile, unlink, the two     *)
(* model requests, Clipboard.copy) either return or throw.  The host user  *)
(* interface requests closeMainWindow, showHUD and showToast are modelled  *)
(* as returning.                                                           *)
(***************************************************************************)
EXTENDS Integers, Sequences, FiniteSets, TLC

VARIABLES
    prefs,           \* getPreferenceValues(): forceMode, includeConfidence, maxOutputChars
    pc,              \* position of main()
    maxChars,        \* main: const maxChars
    captureOutcome,  \* what the capture tool did: "none" before the capture
    tmpFile,         \* the file at tmpPath: "absent", "empty" or "image"
    imagePath,       \* main: const imagePath ("null" when captureScreenshot returned null)
    dataUrl,         \* main: const dataUrl
    requests,        \* the model requests issued (client.responses.create), in order
    routerReply,     \* decideMode: what the classification request produced
    mode,            \* main: const mode ("none" before decideMode returned)
    raw,             \* main: const raw
    finalText,       \* main: const finalText
    clipboard,       \* the texts written by Clipboard.copy, in order
    huds,            \* the showHUD calls, in order
    toasts,          \* the showToast calls, in order
    error,           \* the value caught by main's catch
    unlinkAttempts,  \* number of fs.promises.unlink calls
    now,             \* several runs: the value Date.now() returns
    rpc,             \* several runs: the position of each run
    rpath,           \* several runs: the time stamp in each run's tmpPath (0: none)
    files,           \* several runs: the run whose capture each path holds (0: no file)
    readFrom,        \* several runs: the run whose capture each run read (0: none)
    deletedOf        \* several runs: the run whose capture each run deleted (0: none)

\* the state of the one run of Spec, SpecRouter and SpecSanitize
mainVars == << prefs, pc, maxChars, captureOutcome, tmpFile, imagePath, dataUrl,
               requests, routerReply, mode, raw, finalText, clipboard, huds,
               toasts, error, unlinkAttempts >>

\* the state of the concurrent runs of SpecRuns
runsVars == << now, rpc, rpath, files, readFrom, deletedOf >>

vars == << mainVars, runsVars >>

(***************************************************************************)
(* Bounds of the model.                                                    *)
(***************************************************************************)
MaxPrefLen == 2      \* characters of the maxOutputChars preference
MaxPieces == 3       \* pieces of an extraction reply in SpecSanitize
MaxReplyPieces == 3  \* pieces of a classification reply in SpecRouter
MaxRuns == 2         \* runs of the command in SpecRuns
MaxClock == 2        \* milliseconds the clock of SpecRuns advances

(***************************************************************************)
(* Characters and strings.                                                 *)
(***************************************************************************)
\* String.prototype.trim and \s: white space and line terminators (ASCII part)
WhiteSpace == {" ", "\t", "\n", "\r"}

\* the line terminators at which ^ and $ match under the m flag (ASCII part)
LineTerminators == {"\n", "\r"}

UpperCase == << "A", "B", "C", "D", "E", "F", "G", "H", "I", "J", "K", "L", "M",
                "N", "O", "P", "Q", "R", "S", "T", "U", "V", "W", "X", "Y", "Z" >>

LowerCase == << "a", "b", "c", "d", "e", "f", "g", "h", "i", "j", "k", "l", "m",
                "n", "o", "p", "q", "r", "s", "t", "u", "v", "w", "x", "y", "z" >>

\* case folding of one character, as the i flag compares
Fold(c) ==
    IF \E k \in 1..Len(UpperCase) : UpperCase[k] = c
    THEN LowerCase[CHOOSE k \in 1..Len(UpperCase) : UpperCase[k] = c]
    ELSE c

\* s.slice(from) for 0 <= from
Drop(s, from) == SubSeq(s, from + 1, Len(s))

\* number of leading white-space characters of s (a greedy \s*)
RECURSIVE LeadingSpace(_)
LeadingSpace(s) ==
    IF s # << >> /\ Head(s) \in WhiteSpace THEN 1 + LeadingSpace(Tail(s)) ELSE 0

\* number of trailing white-space characters of s
RECURSIVE TrailingSpace(_)
TrailingSpace(s) ==
    IF s # << >> /\ s[Len(s)] \in WhiteSpace
    THEN 1 + TrailingSpace(SubSeq(s, 1, Len(s) - 1))
    ELSE 0

\* String.prototype.trim
Trim(s) ==
    LET a == LeadingSpace(s)
    IN  IF a = Len(s) THEN << >>
        ELSE SubSeq(s, a + 1, Len(s) - TrailingSpace(s))

\* s.slice(0, n): a negative n counts from the end
Slice(s, n) ==
    IF n >= 0
    THEN SubSeq(s, 1, IF n < Len(s) THEN n ELSE Len(s))
    ELSE SubSeq(s, 1, IF Len(s) + n > 0 THEN Len(s) + n ELSE 0)

\* does s start with the literal w, compared case-insensitively
StartsWithFold(s, w) ==
    /\ Len(s) >= Len(w)
    /\ \A k \in 1..Len(w) : Fold(s[k]) = Fold(w[k])

\* length of the alternative of ws that s starts with (first alternative first), -1 if none
RECURSIVE MatchAlt(_, _)
MatchAlt(s, ws) ==
    IF ws = << >> THEN -1
    ELSE IF StartsWithFold(s, Head(ws)) THEN Len(Head(ws))
    ELSE MatchAlt(s, Tail(ws))

(***************************************************************************)
(* sanitizeOutput.                                                         *)
(***************************************************************************)
LeadInSubjects == << <<"t","h","i","s"," ","i","m","a","g","e">>,
                     <<"t","h","e"," ","i","m","a","g","e">> >>

LeadInVerbs == << <<"s","h","o","w","s">>, <<"i","s">>,
                  <<"c","o","n","t","a","i","n","s">> >>

\* length of the match of /^(this image|the image)\s+(shows|is|contains)\s*[:-]?\s*/i
\* at the start of s, 0 when there is none
LeadInLength(s) ==
    LET a  == MatchAlt(s, LeadInSubjects)
        s1 == Drop(s, a)
        b  == LeadingSpace(s1)
        s2 == Drop(s1, b)
        c  == MatchAlt(s2, LeadInVerbs)
        s3 == Drop(s2, c)
        d  == LeadingSpace(s3)
        s4 == Drop(s3, d)
        e  == IF s4 # << >> /\ Head(s4) \in {":", "-"} THEN 1 ELSE 0
        s5 == Drop(s4, e)
        f  == LeadingSpace(s5)
    IN  IF a < 0 THEN 0
        ELSE IF b = 0 THEN 0
        ELSE IF c < 0 THEN 0
        ELSE a + b + c + d + e + f

RECURSIVE StripLeadInRepeated(_)
StripLeadInRepeated(s) ==
    IF LeadInLength(s) = 0 THEN s ELSE StripLeadInRepeated(Drop(s, LeadInLength(s)))

\* out.replace(/^(this image|the image)\s+(shows|is|contains)\s*[:-]?\s*/i, "")
StripLeadIn(s) == Drop(s, LeadInLength(s))

ConfidenceKey == <<"c","o","n","f","i","d","e","n","c","e",":">>

ConfidenceLevels == << <<"h","i","g","h">>, <<"m","e","d","i","u","m">>,
                       <<"l","o","w">> >>

\* \s*$ under the m flag: the white space after the level reaches the end of
\* the text, or a line terminator in it ends the line
MatchesLineEnd(s) ==
    LET w == LeadingSpace(s)
    IN  \/ w = Len(s)
        \/ \E k \in 1..w : s[k] \in LineTerminators

\* \s*confidence:\s*(high|medium|low)\s*$ matched from the start of s
MatchesConfidenceAt(s) ==
    LET s1 == Drop(s, LeadingSpace(s))
        s2 == Drop(s1, Len(ConfidenceKey))
        s3 == Drop(s2, LeadingSpace(s2))
        c  == MatchAlt(s3, ConfidenceLevels)
    IN  /\ StartsWithFold(s1, ConfidenceKey)
        /\ c >= 0
        /\ MatchesLineEnd(Drop(s3, c))

\* the positions at which ^ matches under the m flag
IsLineStart(s, k) == k = 1 \/ s[k - 1] \in LineTerminators

\* /^\s*confidence:\s*(high|medium|low)\s*$/im.test(s)
HasConfidenceLine(s) ==
    \E k \in 1..(Len(s) + 1) :
        IsLineStart(s, k) /\ MatchesConfidenceAt(Drop(s, k - 1))

DefaultConfidence == <<"\n","C","o","n","f","i","d","e","n","c","e",":"," ",
                       "m","e","d","i","u","m">>

TruncatedMarker == <<"\n","[","t","r","u","n","c","a","t","e","d","]">>

WithConfidenceUnchecked(text, includeConfidence) ==
    LET out == StripLeadIn(Trim(text))
    IN  IF includeConfidence THEN out \o DefaultConfidence ELSE out

\* sanitizeOutput: out after the confidence step
WithConfidence(text, includeConfidence) ==
    LET out == StripLeadIn(Trim(text))
    IN  IF includeConfidence /\ ~HasConfidenceLine(out)
        THEN out \o DefaultConfidence
        ELSE out

sanitizeOutputOffByOne(text, max, includeConfidence) ==
    LET out == WithConfidence(text, includeConfidence)
    IN  Trim(IF Len(out) > max THEN Slice(out, max - 1) \o TruncatedMarker ELSE out)

sanitizeOutput(text, max, includeConfidence) ==
    LET out == WithConfidence(text, includeConfidence)
    IN  Trim(IF Len(out) > max THEN Slice(out, max) \o TruncatedMarker ELSE out)

(***************************************************************************)
(* JSON.parse on a text of lexical tokens.  A token is [k, v]: k is        *)
(* "punct" ({ } : ,), "str" (a string literal with content v), "lit" (null *)
(* or a number), "ws" (white space) or "word" (anything JSON rejects).     *)
(***************************************************************************)
Tok(k, v) == [k |-> k, v |-> v]

Undefined == [kind |-> "undefined", v |-> ""]

\* a parsed JSON value; of an object only the property "type" is kept
StrVal(v) == [kind |-> "str", v |-> v, type |-> Undefined]
LitVal(v) == [kind |-> "lit", v |-> v, type |-> Undefined]
ObjVal(type) == [kind |-> "obj", v |-> "", type |-> type]

NoParse == [ok |-> FALSE, val |-> LitVal("null"), next |-> 0]

IsPunct(t, i, c) == i <= Len(t) /\ t[i] = Tok("punct", c)

RECURSIVE SkipWs(_, _)
SkipWs(t, i) ==
    IF i <= Len(t) /\ t[i].k = "ws" THEN SkipWs(t, i + 1) ELSE i

RECURSIVE ParseValue(_, _)
RECURSIVE ParseMembers(_, _, _)

\* the members of an object from token i on, the opening brace consumed;
\* type is the "type" property seen so far (a later duplicate key wins)
ParseMembers(t, i, type) ==
    LET k == SkipWs(t, i)
        c == SkipWs(t, k + 1)
        r == ParseValue(t, SkipWs(t, c + 1))
        e == SkipWs(t, r.next)
        seen == IF t[k].v = "type"
                THEN [kind |-> r.val.kind, v |-> r.val.v]
                ELSE type
    IN  IF ~(k <= Len(t) /\ t[k].k = "str") THEN NoParse
        ELSE IF ~IsPunct(t, c, ":") THEN NoParse
        ELSE IF ~r.ok THEN NoParse
        ELSE IF IsPunct(t, e, "}") THEN [ok |-> TRUE, val |-> ObjVal(seen), next |-> e + 1]
        ELSE IF IsPunct(t, e, ",") THEN ParseMembers(t, e + 1, seen)
        ELSE NoParse

\* one JSON value starting at token i
ParseValue(t, i) ==
    IF i > Len(t) THEN NoParse
    ELSE IF t[i].k = "str" THEN [ok |-> TRUE, val |-> StrVal(t[i].v), next |-> i + 1]
    ELSE IF t[i].k = "lit" THEN [ok |-> TRUE, val |-> LitVal(t[i].v), next |-> i + 1]
    ELSE IF IsPunct(t, i, "{")
    THEN LET k == SkipWs(t, i + 1)
         IN  IF IsPunct(t, k, "}")
             THEN [ok |-> TRUE, val |-> ObjVal(Undefined), next |-> k + 1]
             ELSE ParseMembers(t, i + 1, Undefined)
    ELSE NoParse

\* JSON.parse(text): ok is FALSE where it throws
JsonParse(t) ==
    LET r == ParseValue(t, SkipWs(t, 1))
    IN  IF r.ok /\ SkipWs(t, r.next) = Len(t) + 1
        THEN [ok |-> TRUE, val |-> r.val]
        ELSE [ok |-> FALSE, val |-> LitVal("null")]

\* text.match(/\{.*\}/s): from the first opening brace to the last closing
\* brace after it; matched is FALSE when there is none
BraceMatch(t) ==
    LET opens  == {i \in 1..Len(t) : t[i] = Tok("punct", "{")}
        first  == CHOOSE i \in opens : \A j \in opens : i <= j
        closes == {j \in 1..Len(t) : j > first /\ t[j] = Tok("punct", "}")}
        last   == CHOOSE j \in closes : \A l \in closes : l <= j
    IN  IF opens = {} THEN [matched |-> FALSE, text |-> << >>]
        ELSE IF closes = {} THEN [matched |-> FALSE, text |-> << >>]
        ELSE [matched |-> TRUE, text |-> SubSeq(t, first, last)]

\* the value null, which safeParseRouter returns when nothing parses
NullResult == LitVal("null")

safeParseRouterDirectOnly(text) ==
    IF JsonParse(text).ok THEN JsonParse(text).val ELSE NullResult

safeParseRouter(text) ==
    IF JsonParse(text).ok THEN JsonParse(text).val
    ELSE IF BraceMatch(text).matched /\ JsonParse(BraceMatch(text).text).ok
         THEN JsonParse(BraceMatch(text).text).val
         ELSE NullResult

Modes == {"table", "chart", "diagram", "general"}

\* parsed?.type
TypeOf(parsed) == parsed.type

RouterModeUnvalidated(parsed) ==
    IF TypeOf(parsed).kind = "str" /\ TypeOf(parsed).v \in Modes \cup {"text"}
    THEN TypeOf(parsed).v
    ELSE "general"

\* decideMode: the mode for a parsed classification reply
RouterMode(parsed) ==
    IF TypeOf(parsed).kind = "str" /\ TypeOf(parsed).v \in Modes
    THEN TypeOf(parsed).v
    ELSE "general"

(***************************************************************************)
(* Preferences and the inputs of a run.                                    *)
(***************************************************************************)
\* all sequences over S of length at most n
SeqsUpTo(S, n) == UNION {[1..k -> S] : k \in 0..n}

\* the concatenation of a sequence of sequences
RECURSIVE Concat(_)
Concat(ss) == IF ss = << >> THEN << >> ELSE Head(ss) \o Concat(Tail(ss))

Digits == << "0", "1", "2", "3", "4", "5", "6", "7", "8", "9" >>

IsDigit(c) == \E k \in 1..Len(Digits) : Digits[k] = c

DigitValue(c) == (CHOOSE k \in 1..Len(Digits) : Digits[k] = c) - 1

\* the value of the leading run of digits of s, from the accumulator acc
RECURSIVE DigitRun(_, _)
DigitRun(s, acc) ==
    IF s # << >> /\ IsDigit(Head(s))
    THEN DigitRun(Tail(s), 10 * acc + DigitValue(Head(s)))
    ELSE acc

\* parseInt(s, 10): leading white space, an optional sign, then digits up
\* to the first other character; NaN when there is no digit
ParseInt(s) ==
    LET t == Drop(s, LeadingSpace(s))
        signed == t # << >> /\ Head(t) \in {"-", "+"}
        d == IF signed THEN Tail(t) ELSE t
    IN  IF d = << >> \/ ~IsDigit(Head(d))
        THEN [nan |-> TRUE, value |-> 0]
        ELSE [nan |-> FALSE,
              value |-> IF signed /\ Head(t) = "-" THEN 0 - DigitRun(d, 0)
                        ELSE DigitRun(d, 0)]

DefaultMaxChars == 12000

\* main: parseInt(prefs.maxOutputChars, 10) || 12000
EffectiveMaxChars(s) ==
    IF ParseInt(s).nan \/ ParseInt(s).value = 0
    THEN DefaultMaxChars
    ELSE ParseInt(s).value

\* the characters typed into the Max Output Length preference
PrefChars == {"-", "0", "3", "x", " "}

PrefStrings == SeqsUpTo(PrefChars, MaxPrefLen)

ForceModes == {"auto"} \cup Modes

\* the captured images
Images == {"image1", "image2"}

\* captureScreenshot: tmpPath
TmpPath == "raycast-capture.png"

NoDataUrl == [mime |-> "", image |-> "none"]

extToMime(ext) ==
    CASE ext = ".png" -> "image/png"
      [] ext \in {".jpg", ".jpeg"} -> "image/jpeg"
      [] ext = ".webp" -> "image/webp"
      [] ext \in {".tif", ".tiff"} -> "image/tiff"
      [] OTHER -> "null"

\* imageFileToDataUrl for the file at tmpPath, whose extension is .png
imageFileToDataUrl(image) ==
    [mime |-> IF extToMime(".png") = "null" THEN "image/png" ELSE extToMime(".png"),
     image |-> image]

\* texts of extraction replies
T_Data == <<"A", "\t", "B">>
T_Table == <<"A", "\t", "B", "\n", "1", "\t", "2">>
T_LeadIn == <<"T","h","e"," ","i","m","a","g","e"," ","s","h","o","w","s",":">>
T_ConfHigh == <<"C","o","n","f","i","d","e","n","c","e",":"," ","h","i","g","h">>
T_ConfLow == <<"c","o","n","f","i","d","e","n","c","e",":","l","o","w">>
T_Space == <<" ">>
T_Newline == <<"\n">>

SanitizePieces == {T_Data, T_LeadIn, T_ConfHigh, T_ConfLow, T_Space, T_Newline}

\* the extraction replies of SpecSanitize
SanitizeTexts ==
    {Concat(ps) : ps \in SeqsUpTo(SanitizePieces, MaxPieces)} \cup {T_Table}

\* the extraction replies of a run of main
MainRaws == { T_Table,
              << >>,
              T_Space \o T_Data \o T_Newline,
              T_LeadIn \o T_Space \o T_Table,
              T_Table \o T_Newline \o T_ConfHigh,
              T_ConfLow \o T_Newline \o T_Table }

\* texts of classification replies
K_Open == Tok("punct", "{")
K_Close == Tok("punct", "}")
K_Colon == Tok("punct", ":")
K_Comma == Tok("punct", ",")
R_Table == << K_Open, Tok("str", "type"), K_Colon, Tok("str", "table"), K_Close >>
R_Chart == << K_Open, Tok("str", "type"), K_Colon, Tok("str", "chart"), K_Comma,
              Tok("str", "format"), K_Colon, Tok("str", "tsv"), K_Close >>
R_Text == << K_Open, Tok("str", "type"), K_Colon, Tok("str", "text"), K_Close >>
R_NoType == << K_Open, Tok("str", "format"), K_Colon, Tok("str", "tsv"), K_Close >>
R_NullType == << K_Open, Tok("str", "type"), K_Colon, Tok("lit", "null"), K_Close >>
R_Twice == << K_Open, Tok("str", "type"), K_Colon, Tok("str", "text"), K_Comma,
              Tok("str", "type"), K_Colon, Tok("str", "diagram"), K_Close >>
R_Word == << Tok("word", "Sure") >>
R_String == << Tok("str", "table") >>
R_Null == << Tok("lit", "null") >>
R_Ws == << Tok("ws", " ") >>

ReplyPieces == { R_Table, R_Chart, R_Text, R_NoType, R_NullType, R_Twice, R_Word,
                 R_String, R_Null, R_Ws, << K_Open >>, << K_Close >> }

\* the classification replies of SpecRouter
RouterTexts == {Concat(ps) : ps \in SeqsUpTo(ReplyPieces, MaxReplyPieces)}

\* the classification replies of a run of main
MainReplies == { R_Table,
                 R_Word \o R_Ws \o R_Chart \o R_Word,
                 R_Text,
                 R_Word \o R_Ws \o R_Word,
                 << >> }

\* response.output_text ?? response.output?.[0]?.content?.[0]?.text ?? ""
ResponseText(response) ==
    IF response.has_output_text THEN response.output_text
    ELSE IF response.has_content_text THEN response.content_text
    ELSE << >>

\* the shapes a response carrying the text t (or no text) can have
Responses(t) ==
    { [has_output_text |-> TRUE, output_text |-> t,
       has_content_text |-> FALSE, content_text |-> << >>],
      [has_output_text |-> FALSE, output_text |-> << >>,
       has_content_text |-> TRUE, content_text |-> t] }

\* the values thrown at each throwing call: Error objects with their message
NoError == [site |-> "none", isError |-> TRUE, message |-> ""]

Thrown(site) ==
    CASE site = "encode" ->
           {[site |-> site, isError |-> TRUE, message |-> "EACCES: permission denied"]}
      [] site = "router" ->
           {[site |-> site, isError |-> TRUE, message |-> "Connection error."]}
      [] site = "extract" ->
           {[site |-> site, isError |-> TRUE, message |-> "Connection error."],
            [site |-> site, isError |-> TRUE, message |-> "401 Incorrect API key provided"]}
      [] site = "clipboard" ->
           {[site |-> site, isError |-> TRUE, message |-> "Clipboard unavailable"]}
      [] site = "notify" ->
           {[site |-> site, isError |-> TRUE, message |-> "Raycast API unavailable"]}

FailureMessageGeneric(e) == "Unexpected error"

\* main (catch): error instanceof Error ? error.message : "Unexpected error"
FailureMessage(e) == IF e.isError THEN e.message ELSE "Unexpected error"

\* main: `Mode: ${mode}`
ModeMessage(m) ==
    CASE m = "table" -> "Mode: table"
      [] m = "chart" -> "Mode: chart"
      [] m = "diagram" -> "Mode: diagram"
      [] m = "general" -> "Mode: general"

SuccessToast(m) ==
    [style |-> "Success", title |-> "Copied extracted text", message |-> ModeMessage(m)]

FailureToast(e) ==
    [style |-> "Failure", title |-> "Extraction failed", message |-> FailureMessage(e)]

(***************************************************************************)
(* One run of main().                                                      *)
(***************************************************************************)
NoReply == [kind |-> "none", text |-> << >>]

Request(kind, m) == [kind |-> kind, mode |-> m]

Init ==
    /\ prefs \in [forceMode : ForceModes,
                  includeConfidence : BOOLEAN,
                  maxOutputChars : PrefStrings]
    /\ pc = "start"
    /\ maxChars = 0
    /\ captureOutcome = "none"
    /\ tmpFile = "absent"
    /\ imagePath = "null"
    /\ dataUrl = NoDataUrl
    /\ requests = << >>
    /\ routerReply = NoReply
    /\ mode = "none"
    /\ raw = << >>
    /\ finalText = << >>
    /\ clipboard = << >>
    /\ huds = << >>
    /\ toasts = << >>
    /\ error = NoError
    /\ unlinkAttempts = 0
    /\ now = 0
    /\ rpc = << >>
    /\ rpath = << >>
    /\ files = << >>
    /\ readFrom = << >>
    /\ deletedOf = << >>

\* main: the preferences are read, maxChars computed, the window closed
Start ==
    /\ pc = "start"
    /\ maxChars' = EffectiveMaxChars(prefs.maxOutputChars)
    /\ pc' = "capture"
    /\ UNCHANGED << prefs, captureOutcome, tmpFile, imagePath, dataUrl, requests,
                    routerReply, mode, raw, finalText, clipboard, huds, toasts,
                    error, unlinkAttempts,
                    runsVars >>

captureResultNoSizeCheck(tool, file) ==
    IF tool = "ok" /\ file # "absent" THEN TmpPath ELSE "null"

\* captureScreenshot: the path when the tool returned and left a non-empty
\* file, null otherwise
captureResult(tool, file) ==
    IF tool = "ok" /\ file \in Images THEN TmpPath ELSE "null"

\* captureScreenshot: the tool throws, or returns leaving no file (Escape),
\* a zero-length file or an image
CaptureScreenshot ==
    /\ pc = "capture"
    /\ \E tool \in {"ok", "throw"}, file \in {"absent", "empty"} \cup Images :
          /\ tool = "throw" => file \in {"absent", "empty"}
          /\ captureOutcome' = (IF tool = "throw" THEN "failed"
                                ELSE IF file = "absent" THEN "cancelled"
                                ELSE IF file = "empty" THEN "empty"
                                ELSE "image")
          /\ tmpFile' = file
          /\ imagePath' = captureResult(tool, file)
    /\ pc' = "captured"
    /\ UNCHANGED << prefs, maxChars, dataUrl, requests, routerReply, mode, raw,
                    finalText, clipboard, huds, toasts, error, unlinkAttempts,
                    runsVars >>

\* main: if (!imagePath) { showHUD("Screenshot cancelled"); return; }
ShowCancelled ==
    /\ pc = "captured"
    /\ imagePath = "null"
    /\ huds' = Append(huds, "Screenshot cancelled")
    /\ pc' = "done"
    /\ UNCHANGED << prefs, maxChars, captureOutcome, tmpFile, imagePath, dataUrl,
                    requests, routerReply, mode, raw, finalText, clipboard, toasts,
                    error, unlinkAttempts,
                    runsVars >>

\* main: showHUD("Extracting data...")
ShowExtracting ==
    /\ pc = "captured"
    /\ imagePath # "null"
    /\ huds' = Append(huds, "Extracting data...")
    /\ pc' = "encode"
    /\ UNCHANGED << prefs, maxChars, captureOutcome, tmpFile, imagePath, dataUrl,
                    requests, routerReply, mode, raw, finalText, clipboard, toasts,
                    error, unlinkAttempts,
                    runsVars >>

\* main: imageFileToDataUrl(imagePath) returns
EncodeReturn ==
    /\ pc = "encode"
    /\ dataUrl' = imageFileToDataUrl(tmpFile)
    /\ pc' = "decide"
    /\ UNCHANGED << prefs, maxChars, captureOutcome, tmpFile, imagePath, requests,
                    routerReply, mode, raw, finalText, clipboard, huds, toasts,
                    error, unlinkAttempts,
                    runsVars >>

\* main: imageFileToDataUrl(imagePath) throws (readFile fails)
EncodeThrow ==
    /\ pc = "encode"
    /\ error' \in Thrown("encode")
    /\ pc' = "catch"
    /\ UNCHANGED << prefs, maxChars, captureOutcome, tmpFile, imagePath, dataUrl,
                    requests, routerReply, mode, raw, finalText, clipboard, huds,
                    toasts, unlinkAttempts,
                    runsVars >>

IsForcedTableOnly(p) == p.forceMode = "table"

\* decideMode: prefs.forceMode !== "auto"
IsForced(p) == p.forceMode # "auto"

\* decideMode: a forced mode is returned at once
DecideForced ==
    /\ pc = "decide"
    /\ IsForced(prefs)
    /\ mode' = prefs.forceMode
    /\ pc' = "extract"
    /\ UNCHANGED << prefs, maxChars, captureOutcome, tmpFile, imagePath, dataUrl,
                    requests, routerReply, raw, finalText, clipboard, huds, toasts,
                    error, unlinkAttempts,
                    runsVars >>

\* decideMode: the classification request is issued
ClassifyRequest ==
    /\ pc = "decide"
    /\ ~IsForced(prefs)
    /\ requests' = Append(requests, Request("classify", "none"))
    /\ pc' = "classifying"
    /\ UNCHANGED << prefs, maxChars, captureOutcome, tmpFile, imagePath, dataUrl,
                    routerReply, mode, raw, finalText, clipboard, huds, toasts,
                    error, unlinkAttempts,
                    runsVars >>

\* decideMode: the classification request returns a response
ClassifyReturn ==
    /\ pc = "classifying"
    /\ \E t \in MainReplies : \E response \in Responses(t) :
          routerReply' = [kind |-> "text", text |-> ResponseText(response)]
    /\ pc' = "route"
    /\ UNCHANGED << prefs, maxChars, captureOutcome, tmpFile, imagePath, dataUrl,
                    requests, mode, raw, finalText, clipboard, huds, toasts, error,
                    unlinkAttempts,
                    runsVars >>

\* decideMode: the reply is parsed and validated, the mode returned
RouterDecide ==
    /\ pc = "route"
    /\ mode' = RouterMode(safeParseRouter(routerReply.text))
    /\ pc' = "extract"
    /\ UNCHANGED << prefs, maxChars, captureOutcome, tmpFile, imagePath, dataUrl,
                    requests, routerReply, raw, finalText, clipboard, huds, toasts,
                    error, unlinkAttempts,
                    runsVars >>

ClassifyThrowPropagates ==
    /\ pc = "classifying"
    /\ routerReply' = [kind |-> "throw", text |-> << >>]
    /\ error' \in Thrown("router")
    /\ pc' = "catch"
    /\ UNCHANGED << prefs, maxChars, captureOutcome, tmpFile, imagePath, dataUrl,
                    requests, mode, raw, finalText, clipboard, huds, toasts,
                    unlinkAttempts,
                    runsVars >>

ClassifyThrowRetries ==
    /\ pc = "classifying"
    /\ Len(requests) < 3
    /\ requests' = Append(requests, Request("classify", "none"))
    /\ UNCHANGED << prefs, pc, maxChars, captureOutcome, tmpFile, imagePath,
                    dataUrl, routerReply, mode, raw, finalText, clipboard, huds,
                    toasts, error, unlinkAttempts,
                    runsVars >>

\* decideMode: the classification request throws; the catch swallows the
\* error and general is returned
ClassifyThrow ==
    /\ pc = "classifying"
    /\ routerReply' = [kind |-> "throw", text |-> << >>]
    /\ mode' = "general"
    /\ pc' = "extract"
    /\ UNCHANGED << prefs, maxChars, captureOutcome, tmpFile, imagePath, dataUrl,
                    requests, raw, finalText, clipboard, huds, toasts, error,
                    unlinkAttempts,
                    runsVars >>

ExtractRequestGeneralPrompt ==
    /\ pc = "extract"
    /\ requests' = Append(requests, Request("extract", "general"))
    /\ pc' = "extracting"
    /\ UNCHANGED << prefs, maxChars, captureOutcome, tmpFile, imagePath, dataUrl,
                    routerReply, mode, raw, finalText, clipboard, huds, toasts,
                    error, unlinkAttempts,
                    runsVars >>

\* extractFromImage: the extraction request is issued, its prompt built for mode
ExtractRequest ==
    /\ pc = "extract"
    /\ requests' = Append(requests, Request("extract", mode))
    /\ pc' = "extracting"
    /\ UNCHANGED << prefs, maxChars, captureOutcome, tmpFile, imagePath, dataUrl,
                    routerReply, mode, raw, finalText, clipboard, huds, toasts,
                    error, unlinkAttempts,
                    runsVars >>

\* extractFromImage: the request returns a response
ExtractReturn ==
    /\ pc = "extracting"
    /\ \E t \in MainRaws : \E response \in Responses(t) :
          raw' = ResponseText(response)
    /\ pc' = "sanitize"
    /\ UNCHANGED << prefs, maxChars, captureOutcome, tmpFile, imagePath, dataUrl,
                    requests, routerReply, mode, finalText, clipboard, huds, toasts,
                    error, unlinkAttempts,
                    runsVars >>

\* extractFromImage: the request throws, up to main's catch
ExtractThrow ==
    /\ pc = "extracting"
    /\ error' \in Thrown("extract")
    /\ pc' = "catch"
    /\ UNCHANGED << prefs, maxChars, captureOutcome, tmpFile, imagePath, dataUrl,
                    requests, routerReply, mode, raw, finalText, clipboard, huds,
                    toasts, unlinkAttempts,
                    runsVars >>

\* main: finalText = sanitizeOutput(raw, maxChars, prefs.includeConfidence)
Sanitize ==
    /\ pc = "sanitize"
    /\ finalText' = sanitizeOutput(raw, maxChars, prefs.includeConfidence)
    /\ pc' = "copy"
    /\ UNCHANGED << prefs, maxChars, captureOutcome, tmpFile, imagePath, dataUrl,
                    requests, routerReply, mode, raw, clipboard, huds, toasts,
                    error, unlinkAttempts,
                    runsVars >>

CopiedTextRaw == raw

\* main: the argument of Clipboard.copy
CopiedText == finalText

\* main: Clipboard.copy(finalText) returns
CopyReturn ==
    /\ pc = "copy"
    /\ clipboard' = Append(clipboard, CopiedText)
    /\ pc' = "toast"
    /\ UNCHANGED << prefs, maxChars, captureOutcome, tmpFile, imagePath, dataUrl,
                    requests, routerReply, mode, raw, finalText, huds, toasts,
                    error, unlinkAttempts,
                    runsVars >>

\* main: Clipboard.copy(finalText) throws
CopyThrow ==
    /\ pc = "copy"
    /\ error' \in Thrown("clipboard")
    /\ pc' = "catch"
    /\ UNCHANGED << prefs, maxChars, captureOutcome, tmpFile, imagePath, dataUrl,
                    requests, routerReply, mode, raw, finalText, clipboard, huds,
                    toasts, unlinkAttempts,
                    runsVars >>

\* main: the success toast
ShowSuccess ==
    /\ pc = "toast"
    /\ toasts' = Append(toasts, SuccessToast(mode))
    /\ pc' = "unlink"
    /\ UNCHANGED << prefs, maxChars, captureOutcome, tmpFile, imagePath, dataUrl,
                    requests, routerReply, mode, raw, finalText, clipboard, huds,
                    error, unlinkAttempts,
                    runsVars >>

UnlinkUnguarded ==
    /\ pc = "unlink"
    /\ unlinkAttempts' = unlinkAttempts + 1
    /\ \/ tmpFile' = "absent" /\ pc' = "done" /\ error' = error
       \/ tmpFile' = tmpFile /\ pc' = "catch" /\ error' \in Thrown("encode")
    /\ UNCHANGED << prefs, maxChars, captureOutcome, imagePath, dataUrl, requests,
                    routerReply, mode, raw, finalText, clipboard, huds, toasts,
                    runsVars >>

\* main: fs.promises.unlink(imagePath); its failure is ignored
Unlink ==
    /\ pc = "unlink"
    /\ unlinkAttempts' = unlinkAttempts + 1
    /\ \/ tmpFile' = "absent"
       \/ tmpFile' = tmpFile
    /\ pc' = "done"
    /\ UNCHANGED << prefs, maxChars, captureOutcome, imagePath, dataUrl, requests,
                    routerReply, mode, raw, finalText, clipboard, huds, toasts,
                    error,
                    runsVars >>

\* main (catch): the failure toast
Catch ==
    /\ pc = "catch"
    /\ toasts' = Append(toasts, FailureToast(error))
    /\ pc' = "done"
    /\ UNCHANGED << prefs, maxChars, captureOutcome, tmpFile, imagePath, dataUrl,
                    requests, routerReply, mode, raw, finalText, clipboard, huds,
                    error, unlinkAttempts,
                    runsVars >>

Next ==
    \/ Start
    \/ CaptureScreenshot
    \/ ShowCancelled
    \/ ShowExtracting
    \/ EncodeReturn
    \/ EncodeThrow
    \/ DecideForced
    \/ ClassifyRequest
    \/ ClassifyReturn
    \/ RouterDecide
    \/ ClassifyThrow
    \/ ExtractRequest
    \/ ExtractReturn
    \/ ExtractThrow
    \/ Sanitize
    \/ CopyReturn
    \/ CopyThrow
    \/ ShowSuccess
    \/ Unlink
    \/ Catch

Spec == Init /\ [][Next]_vars

(***************************************************************************)
(* The router on every classification reply: decideMode at the point where *)
(* the classification request has returned.                                *)
(***************************************************************************)
InitRouter ==
    /\ prefs \in [forceMode : {"auto"},
                  includeConfidence : BOOLEAN,
                  maxOutputChars : {<< >>}]
    /\ pc = "route"
    /\ maxChars = EffectiveMaxChars(prefs.maxOutputChars)
    /\ captureOutcome = "image"
    /\ tmpFile \in Images
    /\ imagePath = TmpPath
    /\ dataUrl = imageFileToDataUrl(tmpFile)
    /\ requests = << Request("classify", "none") >>
    /\ routerReply \in [kind : {"text"}, text : RouterTexts]
    /\ mode = "none"
    /\ raw = << >>
    /\ finalText = << >>
    /\ clipboard = << >>
    /\ huds = << "Extracting data..." >>
    /\ toasts = << >>
    /\ error = NoError
    /\ unlinkAttempts = 0
    /\ now = 0
    /\ rpc = << >>
    /\ rpath = << >>
    /\ files = << >>
    /\ readFrom = << >>
    /\ deletedOf = << >>

NextRouter == RouterDecide

SpecRouter == InitRouter /\ [][NextRouter]_vars

(***************************************************************************)
(* The sanitizer on every extraction reply: main at the point where the    *)
(* extraction request has returned.                                        *)
(***************************************************************************)
\* the Max Output Length preferences of SpecSanitize
SanitizePrefs == { << >>, <<"3">>, <<"3", "0">>, <<"3", "3">>, <<"-", "3">> }

InitSanitize ==
    /\ prefs \in [forceMode : {"table"},
                  includeConfidence : BOOLEAN,
                  maxOutputChars : SanitizePrefs]
    /\ pc = "sanitize"
    /\ maxChars = EffectiveMaxChars(prefs.maxOutputChars)
    /\ captureOutcome = "image"
    /\ tmpFile = "image1"
    /\ imagePath = TmpPath
    /\ dataUrl = imageFileToDataUrl(tmpFile)
    /\ requests = << Request("extract", "table") >>
    /\ routerReply = NoReply
    /\ mode = "table"
    /\ raw \in SanitizeTexts
    /\ finalText = << >>
    /\ clipboard = << >>
    /\ huds = << "Extracting data..." >>
    /\ toasts = << >>
    /\ error = NoError
    /\ unlinkAttempts = 0
    /\ now = 0
    /\ rpc = << >>
    /\ rpath = << >>
    /\ files = << >>
    /\ readFrom = << >>
    /\ deletedOf = << >>

NextSanitize == Sanitize

SpecSanitize == InitSanitize /\ [][NextSanitize]_vars

(***************************************************************************)
(* One run of main() in which the host user interface requests             *)
(* (closeMainWindow, showHUD, showToast) may throw as well.  A HUD or      *)
(* toast is recorded as shown when its call returns.  A throw inside the   *)
(* try block goes to the catch; a throw of the failure toast inside the    *)
(* catch rejects the promise of main.  Every call returns or throws and    *)
(* every synchronous step completes: a run that has not ended eventually   *)
(* leaves the position it is at (weak fairness of CallCompletes).          *)
(***************************************************************************)
\* main: closeMainWindow() throws
CloseWindowThrow ==
    /\ pc = "start"
    /\ maxChars' = EffectiveMaxChars(prefs.maxOutputChars)
    /\ error' \in Thrown("notify")
    /\ pc' = "catch"
    /\ UNCHANGED << prefs, captureOutcome, tmpFile, imagePath, dataUrl, requests,
                    routerReply, mode, raw, finalText, clipboard, huds, toasts,
                    unlinkAttempts, runsVars >>

\* main: showHUD("Screenshot cancelled") throws
ShowCancelledThrow ==
    /\ pc = "captured"
    /\ imagePath = "null"
    /\ error' \in Thrown("notify")
    /\ pc' = "catch"
    /\ UNCHANGED << prefs, maxChars, captureOutcome, tmpFile, imagePath, dataUrl,
                    requests, routerReply, mode, raw, finalText, clipboard, huds,
                    toasts, unlinkAttempts, runsVars >>

\* main: showHUD("Extracting data...") throws
ShowExtractingThrow ==
    /\ pc = "captured"
    /\ imagePath # "null"
    /\ error' \in Thrown("notify")
    /\ pc' = "catch"
    /\ UNCHANGED << prefs, maxChars, captureOutcome, tmpFile, imagePath, dataUrl,
                    requests, routerReply, mode, raw, finalText, clipboard, huds,
                    toasts, unlinkAttempts, runsVars >>

\* main: the success toast throws
ShowSuccessThrow ==
    /\ pc = "toast"
    /\ error' \in Thrown("notify")
    /\ pc' = "catch"
    /\ UNCHANGED << prefs, maxChars, captureOutcome, tmpFile, imagePath, dataUrl,
                    requests, routerReply, mode, raw, finalText, clipboard, huds,
                    toasts, unlinkAttempts, runsVars >>

\* main (catch): the failure toast throws and main's promise rejects
CatchThrow ==
    /\ pc = "catch"
    /\ pc' = "rejected"
    /\ UNCHANGED << prefs, maxChars, captureOutcome, tmpFile, imagePath, dataUrl,
                    requests, routerReply, mode, raw, finalText, clipboard, huds,
                    toasts, error, unlinkAttempts, runsVars >>

InitOutcome ==
    /\ Init
    /\ prefs.maxOutputChars \in SanitizePrefs

NextOutcome ==
    \/ Start
    \/ CloseWindowThrow
    \/ CaptureScreenshot
    \/ ShowCancelled
    \/ ShowCancelledThrow
    \/ ShowExtracting
    \/ ShowExtractingThrow
    \/ EncodeReturn
    \/ EncodeThrow
    \/ DecideForced
    \/ ClassifyRequest
    \/ ClassifyReturn
    \/ RouterDecide
    \/ ClassifyThrow
    \/ ExtractRequest
    \/ ExtractReturn
    \/ ExtractThrow
    \/ Sanitize
    \/ CopyReturn
    \/ CopyThrow
    \/ ShowSuccess
    \/ ShowSuccessThrow
    \/ Unlink
    \/ Catch
    \/ CatchThrow

Positions ==
    {"start", "capture", "captured", "encode", "decide", "classifying", "route",
     "extract", "extracting", "sanitize", "copy", "toast", "unlink", "catch",
     "done", "rejected"}

\* the pending call or step of a run that has not ended completes
CallCompletes ==
    /\ pc \notin {"done", "rejected"}
    /\ pc' \in Positions \ {pc}

SpecOutcome == InitOutcome /\ [][NextOutcome]_vars /\ WF_pc(CallCompletes)

(***************************************************************************)
(* Several runs of the command, each a main() of its own, on one file      *)
(* system and one clock.  Of a run only the steps that touch the capture   *)
(* file are kept: captureScreenshot, imageFileToDataUrl, the steps that    *)
(* can throw before the cleanup, and the cleanup.  A path is identified by *)
(* the time stamp in its name, the rest of the name being fixed.           *)
(***************************************************************************)
Runs == 1..MaxRuns

\* the values of Date.now()
Stamps == 1..(1 + MaxClock)

\* the main-run variables are not used by the runs of SpecRuns
IdleMain ==
    /\ prefs = [forceMode |-> "auto", includeConfidence |-> FALSE,
                maxOutputChars |-> << >>]
    /\ pc = "start"
    /\ maxChars = 0
    /\ captureOutcome = "none"
    /\ tmpFile = "absent"
    /\ imagePath = "null"
    /\ dataUrl = NoDataUrl
    /\ requests = << >>
    /\ routerReply = NoReply
    /\ mode = "none"
    /\ raw = << >>
    /\ finalText = << >>
    /\ clipboard = << >>
    /\ huds = << >>
    /\ toasts = << >>
    /\ error = NoError
    /\ unlinkAttempts = 0

InitRuns ==
    /\ IdleMain
    /\ now = 1
    /\ rpc = [r \in Runs |-> "start"]
    /\ rpath = [r \in Runs |-> 0]
    /\ files = [t \in Stamps |-> 0]
    /\ readFrom = [r \in Runs |-> 0]
    /\ deletedOf = [r \in Runs |-> 0]

\* the clock advances by a millisecond
Tick ==
    /\ now < 1 + MaxClock
    /\ now' = now + 1
    /\ UNCHANGED << mainVars, rpc, rpath, files, readFrom, deletedOf >>

\* captureScreenshot: the time stamp of tmpPath
TmpStamp(clock) == clock

\* captureScreenshot of run r: tmpPath is named after Date.now()
RunTmpPath(r) ==
    /\ rpc[r] = "start"
    /\ rpath' = [rpath EXCEPT ![r] = TmpStamp(now)]
    /\ rpc' = [rpc EXCEPT ![r] = "capture"]
    /\ UNCHANGED << mainVars, now, files, readFrom, deletedOf >>

\* captureScreenshot of run r: the tool writes the image at tmpPath, or the
\* user cancels and it writes nothing, or it throws; the path is returned
\* when a non-empty file is at tmpPath, null otherwise
RunCapture(r) ==
    /\ rpc[r] = "capture"
    /\ \E tool \in {"image", "cancel", "throw"} :
          LET after == IF tool = "image"
                       THEN [files EXCEPT ![rpath[r]] = r]
                       ELSE files
          IN  /\ files' = after
              /\ rpc' = [rpc EXCEPT ![r] =
                            IF tool # "throw" /\ after[rpath[r]] # 0
                            THEN "encode"
                            ELSE "done"]
    /\ UNCHANGED << mainVars, now, rpath, readFrom, deletedOf >>

\* imageFileToDataUrl of run r: readFile(imagePath) returns the file's
\* content, or throws when the file is gone, up to the catch of main
RunEncode(r) ==
    /\ rpc[r] = "encode"
    /\ IF files[rpath[r]] # 0
       THEN /\ readFrom' = [readFrom EXCEPT ![r] = files[rpath[r]]]
            /\ rpc' = [rpc EXCEPT ![r] = "extract"]
       ELSE /\ readFrom' = readFrom
            /\ rpc' = [rpc EXCEPT ![r] = "done"]
    /\ UNCHANGED << mainVars, now, rpath, files, deletedOf >>

\* run r: the extraction request or Clipboard.copy throws; the catch shows
\* the failure toast and the file stays
RunFail(r) ==
    /\ rpc[r] = "extract"
    /\ rpc' = [rpc EXCEPT ![r] = "done"]
    /\ UNCHANGED << mainVars, now, rpath, files, readFrom, deletedOf >>

\* run r: extraction, copy and success toast, then unlink(imagePath)
RunFinish(r) ==
    /\ rpc[r] = "extract"
    /\ deletedOf' = [deletedOf EXCEPT ![r] = files[rpath[r]]]
    /\ files' = [files EXCEPT ![rpath[r]] = 0]
    /\ rpc' = [rpc EXCEPT ![r] = "done"]
    /\ UNCHANGED << mainVars, now, rpath, readFrom >>

NextRuns ==
    \/ Tick
    \/ \E r \in Runs : RunTmpPath(r)
    \/ \E r \in Runs : RunCapture(r)
    \/ \E r \in Runs : RunEncode(r)
    \/ \E r \in Runs : RunFail(r)
    \/ \E r \in Runs : RunFinish(r)

SpecRuns == InitRuns /\ [][NextRuns]_vars

(***************************************************************************)
(* Vocabulary of the properties.                                           *)
(***************************************************************************)
\* the last line of s: what follows its last line terminator
RECURSIVE LastLine(_)
LastLine(s) ==
    IF \E k \in 1..Len(s) : s[k] \in LineTerminators
    THEN LastLine(Tail(s))
    ELSE s

\* the extraction reply, trimmed and without its lead-in
NormalForm(s) == StripLeadIn(Trim(s))

LastToastIs(style) == toasts # << >> /\ toasts[Len(toasts)].style = style

EndedCancelled == pc = "done" /\ huds = << "Screenshot cancelled" >>
EndedSuccess == pc = "done" /\ LastToastIs("Success")
EndedFailure == pc = "done" /\ LastToastIs("Failure")

CaptureCancelled == captureOutcome \in {"cancelled", "empty", "failed"}

(***************************************************************************)
(* C1: with a forced mode (forceMode is not "auto") decideMode returns     *)
(* exactly that mode and no classification request is issued, whatever the *)
(* image: the only model request of the run is the extraction request.     *)
(***************************************************************************)
C1_ForcedModeIsReturnedWithoutClassification ==
    prefs.forceMode # "auto" =>
        /\ mode \in {"none", prefs.forceMode}
        /\ pc \in {"extract", "extracting", "sanitize", "copy", "toast", "unlink"}
              => mode = prefs.forceMode
        /\ routerReply = NoReply
        /\ Len(requests) <= 1
        /\ \A i \in 1..Len(requests) :
              requests[i] = Request("extract", prefs.forceMode)

C1_Witness ==
    /\ prefs.forceMode = "chart"
    /\ tmpFile = "image2"
    /\ pc = "sanitize"
    /\ mode = "chart"
    /\ requests = << Request("extract", "chart") >>

C4_RouterFailureIsAbsorbed ==
    routerReply.kind = "throw" =>
        /\ prefs.forceMode = "auto"
        /\ mode = "general"
        /\ error.site # "router"
        /\ pc # "extract" =>
              /\ Len(requests) = 2
              /\ requests[2] = Request("extract", "general")
        /\ pc \in {"catch", "done"} /\ ~LastToastIs("Success")
              => error.site \in {"extract", "clipboard"}

C4_Witness ==
    /\ routerReply.kind = "throw"
    /\ pc = "done"
    /\ toasts = << SuccessToast("general") >>

(***************************************************************************)
(* C5: in auto mode the router returns general whenever the classification *)
(* reply yields no valid decision: the reply parses neither directly nor   *)
(* through its brace-delimited substring, or the type of the parsed value  *)
(* is absent or outside the mode enumeration.                              *)
(***************************************************************************)
\* the reply parses directly or through its brace-delimited substring
Parseable(t) ==
    \/ JsonParse(t).ok
    \/ BraceMatch(t).matched /\ JsonParse(BraceMatch(t).text).ok

\* the value of the parse that succeeded
ParsedValue(t) ==
    IF JsonParse(t).ok THEN JsonParse(t).val ELSE JsonParse(BraceMatch(t).text).val

NoValidDecision(t) ==
    \/ ~Parseable(t)
    \/ ParsedValue(t).type.kind # "str"
    \/ ParsedValue(t).type.v \notin {"table", "chart", "diagram", "general"}

C5_NoValidDecisionGivesGeneral ==
    /\ pc = "extract"
    /\ prefs.forceMode = "auto"
    /\ routerReply.kind = "text"
    /\ NoValidDecision(routerReply.text)
    => mode = "general"

C5_Witness ==
    /\ pc = "extract"
    /\ routerReply.kind = "text"
    /\ ~JsonParse(routerReply.text).ok
    /\ BraceMatch(routerReply.text).matched
    /\ ~JsonParse(BraceMatch(routerReply.text).text).ok
    /\ mode = "general"

C7_Original ==
    pc = "copy" /\ Len(raw) > maxChars =>
        /\ Len(finalText) = maxChars + Len(TruncatedMarker)
        /\ \E k \in 0..Len(raw) : finalText = SubSeq(raw, 1, k) \o TruncatedMarker

(***************************************************************************)
(* C7, amended: for a budget of at least 1 and a raw text whose trimmed,   *)
(* lead-in-stripped form is longer than the budget, with any confidence    *)
(* setting, the result is the first budget characters of that form         *)
(* followed by the marker, so its length is the budget plus the marker's.  *)
(***************************************************************************)
C7_TruncationOfNormalForm ==
    pc = "copy" /\ maxChars >= 1 /\ Len(NormalForm(raw)) > maxChars =>
        /\ finalText = SubSeq(NormalForm(raw), 1, maxChars) \o TruncatedMarker
        /\ Len(finalText) = maxChars + Len(TruncatedMarker)

C7_Witness ==
    /\ pc = "copy"
    /\ prefs.includeConfidence
    /\ maxChars = 30
    /\ Len(NormalForm(raw)) > maxChars
    /\ NormalForm(raw) # raw
    /\ Len(finalText) = 42

(***************************************************************************)
(* C8, as stated: with the confidence toggle on, if the raw text does not  *)
(* end with a line Confidence: <high|medium|low> the final line of the     *)
(* result is exactly "Confidence: medium"; if it ends with such a line the *)
(* line is kept and no second one is appended.                             *)
(***************************************************************************)
ConfidenceMedium == Tail(DefaultConfidence)

\* the last line of the text is a confidence line
EndsWithConfidenceLine(s) == MatchesConfidenceAt(LastLine(Trim(s)))

ConfiguredMaxOutputLength ==
    IF ~ParseInt(prefs.maxOutputChars).nan /\ ParseInt(prefs.maxOutputChars).value > 0
    THEN ParseInt(prefs.maxOutputChars).value
    ELSE DefaultMaxChars

C9_ClipboardWithinMaxOutputLength ==
    \A i \in 1..Len(clipboard) : Len(clipboard[i]) <= ConfiguredMaxOutputLength

(***************************************************************************)
(* C10: in every run in which the capture produced an image file, the      *)
(* deletion of that file is attempted before the run ends, whether it ends *)
(* with the success or with the failure notification; a failing deletion   *)
(* does not change the reported outcome.                                   *)
(***************************************************************************)
C10_TempFileDeletionAttempted ==
    /\ pc = "done" /\ imagePath # "null" => unlinkAttempts = 1
    /\ pc = "done" /\ unlinkAttempts = 1 /\ tmpFile # "absent" => EndedSuccess

(***************************************************************************)
(* C11: with confidence disabled and a budget not smaller than the text,   *)
(* sanitizeOutput returns a text that does not begin with a lead-in phrase *)
(* unchanged apart from the trimming of surrounding white space (so        *)
(* "A\tB\n1\t2" is returned exactly); when a lead-in is present, only one  *)
(* occurrence, at the very start, is removed.                              *)
(***************************************************************************)
\* s begins with (this image|the image), white space, (shows|is|contains)
BeginsWithLeadIn(s) ==
    \E i \in 1..Len(LeadInSubjects) : \E j \in 1..Len(LeadInVerbs) :
        \E k \in 1..Len(s) :
            /\ StartsWithFold(s, LeadInSubjects[i])
            /\ \A n \in 1..k : Len(s) >= Len(LeadInSubjects[i]) + n
                                /\ s[Len(LeadInSubjects[i]) + n] \in WhiteSpace
            /\ StartsWithFold(Drop(s, Len(LeadInSubjects[i]) + k), LeadInVerbs[j])

\* p is one lead-in and nothing more: the phrase, white space, an optional
\* colon or dash, white space
IsOneLeadIn(p) ==
    \E i \in 1..Len(LeadInSubjects) : \E j \in 1..Len(LeadInVerbs) :
        LET a == Len(LeadInSubjects[i])
            rest == Drop(p, a)
            b == LeadingSpace(rest)
            tail == Drop(rest, b + Len(LeadInVerbs[j]))
            d == LeadingSpace(tail)
            after == Drop(tail, d)
        IN  /\ StartsWithFold(p, LeadInSubjects[i])
            /\ b >= 1
            /\ StartsWithFold(Drop(rest, b), LeadInVerbs[j])
            /\ \/ after = << >>
               \/ /\ Head(after) \in {":", "-"}
                  /\ LeadingSpace(Tail(after)) = Len(after) - 1

C11_OnlyOneLeadingLeadInRemoved ==
    pc = "copy" /\ ~prefs.includeConfidence /\ Len(raw) <= maxChars =>
        /\ ~BeginsWithLeadIn(Trim(raw)) => finalText = Trim(raw)
        /\ raw = T_Table => finalText = T_Table
        /\ BeginsWithLeadIn(Trim(raw)) =>
              \E n \in 1..Len(Trim(raw)) :
                  /\ IsOneLeadIn(SubSeq(Trim(raw), 1, n))
                  /\ finalText = Drop(Trim(raw), n)

C11_Witness ==
    /\ pc = "copy"
    /\ ~prefs.includeConfidence
    /\ Len(raw) <= maxChars
    /\ raw = T_LeadIn \o T_LeadIn \o T_Data
    /\ finalText = T_LeadIn \o T_Data

(***************************************************************************)
(* C12: a run issues at most one classification request and at most one    *)
(* extraction request; the classification request, if any, has completed   *)
(* when the extraction request is issued; the extraction request is issued *)
(* only after a successful capture; no request is reissued after a failure.*)
(***************************************************************************)
RequestsOfKind(kind) == {i \in 1..Len(requests) : requests[i].kind = kind}

C12_AtMostOneRequestOfEachKind ==
    /\ Cardinality(RequestsOfKind("classify")) <= 1
    /\ Cardinality(RequestsOfKind("extract")) <= 1
    /\ \A i \in RequestsOfKind("extract") :
          /\ captureOutcome = "image"
          /\ imagePath # "null"
          /\ \A j \in RequestsOfKind("classify") :
                j < i /\ routerReply.kind \in {"text", "throw"}
    /\ routerReply.kind = "throw" => Cardinality(RequestsOfKind("classify")) = 1
    /\ error.site = "extract" => Cardinality(RequestsOfKind("extract")) = 1

C12_Witness ==
    /\ pc = "done"
    /\ routerReply.kind = "throw"
    /\ error.site = "extract"
    /\ requests = << Request("classify", "none"), Request("extract", "general") >>

(***************************************************************************)
(* C13, as stated: in auto mode, when the classification reply does not    *)
(* parse directly but contains a brace-delimited JSON object whose type is *)
(* in the mode enumeration, surrounded by arbitrary other text, the router *)
(* returns that object's type rather than general.                         *)
(***************************************************************************)
\* the types of the JSON objects with a valid type that occur in t
EmbeddedDecisions(t) ==
    { JsonParse(SubSeq(t, i, j)).val.type.v :
        <<i, j>> \in { <<a, b>> \in (1..Len(t)) \X (1..Len(t)) :
                         /\ a <= b
                         /\ t[a] = Tok("punct", "{")
                         /\ t[b] = Tok("punct", "}")
                         /\ JsonParse(SubSeq(t, a, b)).ok
                         /\ JsonParse(SubSeq(t, a, b)).val.type.kind = "str"
                         /\ JsonParse(SubSeq(t, a, b)).val.type.v
                               \in {"table", "chart", "diagram", "general"} } }

C13_Original ==
    /\ pc = "extract"
    /\ routerReply.kind = "text"
    /\ ~JsonParse(routerReply.text).ok
    /\ EmbeddedDecisions(routerReply.text) # {}
    => mode \in EmbeddedDecisions(routerReply.text)

(***************************************************************************)
(* C13, amended: in auto mode, when the classification reply does not      *)
(* parse directly but the substring from its first opening brace to its    *)
(* last closing brace is a JSON object whose type is in the mode           *)
(* enumeration (the text around the object has no opening brace before it  *)
(* and no closing brace after it), the router returns that object's type.  *)
(***************************************************************************)
\* the substring of t from its first opening brace to its last closing brace
OuterBraces(t) ==
    LET opens  == {i \in 1..Len(t) : t[i] = Tok("punct", "{")}
        closes == {j \in 1..Len(t) : t[j] = Tok("punct", "}")}
        lo == CHOOSE i \in opens : \A k \in opens : i <= k
        hi == CHOOSE j \in closes : \A k \in closes : k <= j
    IN  IF opens = {} \/ closes = {} THEN << >> ELSE SubSeq(t, lo, hi)

C13_OuterBracesObjectDecides ==
    LET inner == JsonParse(OuterBraces(routerReply.text))
    IN  /\ pc = "extract"
        /\ routerReply.kind = "text"
        /\ ~JsonParse(routerReply.text).ok
        /\ inner.ok
        /\ inner.val.type.kind = "str"
        /\ inner.val.type.v \in {"table", "chart", "diagram", "general"}
        => mode = inner.val.type.v

C13_Witness ==
    /\ pc = "extract"
    /\ routerReply.text = R_Word \o R_Chart \o R_Word
    /\ mode = "chart"

(***************************************************************************)
(* C14: exactly one mode is selected per run and never revised: the mode   *)
(* decideMode returns is a member of the mode enumeration for every        *)
(* forceMode and every classification reply, and that same mode is the one *)
(* the extraction prompt is built for and the one the success notification *)
(* names.                                                                  *)
(***************************************************************************)
C14_OneModePerRun ==
    /\ mode \in {"none", "table", "chart", "diagram", "general"}
    /\ pc \in {"extract", "extracting", "sanitize", "copy", "toast", "unlink"}
          => mode # "none"
    /\ \A i \in RequestsOfKind("extract") :
          mode # "none" /\ requests[i].mode = mode
    /\ \A i \in 1..Len(toasts) :
          toasts[i].style = "Success" =>
              /\ mode # "none"
              /\ toasts[i].message = ModeMessage(mode)
              /\ \E j \in RequestsOfKind("extract") : requests[j].mode = mode

C14_Witness ==
    /\ pc = "done"
    /\ prefs.forceMode = "auto"
    /\ routerReply.text = R_Word \o R_Ws \o R_Chart \o R_Word
    /\ requests = << Request("classify", "none"), Request("extract", "chart") >>
    /\ toasts = << [style |-> "Success", title |-> "Copied extracted text",
                    message |-> "Mode: chart"] >>

(***************************************************************************)
(* C15: every run captures to a generated unique temporary path: no two    *)
(* runs, runs at overlapping times included, use the same path, so a run   *)
(* never reads or deletes the capture file of another run.                 *)
(***************************************************************************)
C15_TempPathsAreUnique ==
    /\ \A r1 \in Runs : \A r2 \in Runs :
          r1 # r2 /\ rpath[r1] # 0 /\ rpath[r2] # 0 => rpath[r1] # rpath[r2]
    /\ \A r \in Runs : readFrom[r] \in {0, r} /\ deletedOf[r] \in {0, r}

(***************************************************************************)
(* C16: the budget passed to sanitizeOutput is a positive integer in every *)
(* run: the configured maxOutputChars when that parses to a positive       *)
(* integer and 12000 otherwise (missing, non-numeric, zero or negative),   *)
(* so truncation never cuts a text that is within the configured budget.   *)
(***************************************************************************)
C16_EffectiveBudgetIsPositive ==
    pc # "start" =>
        /\ maxChars >= 1
        /\ maxChars = ConfiguredMaxOutputLength
        /\ pc \in {"copy", "toast", "unlink"}
              /\ Len(WithConfidence(raw, prefs.includeConfidence))
                    <= ConfiguredMaxOutputLength
              => finalText = Trim(WithConfidence(raw, prefs.includeConfidence))

(***************************************************************************)
(* C17, as stated: every external call returning or throwing, every run    *)
(* terminates, and it ends with exactly one of three outcomes: the         *)
(* "Screenshot cancelled" status, the success notification or the failure  *)
(* notification; success and failure are never both shown in one run.      *)
(***************************************************************************)
Terminated == pc \in {"done", "rejected"}

ShownCancelled == \E i \in 1..Len(huds) : huds[i] = "Screenshot cancelled"
ShownSuccess == \E i \in 1..Len(toasts) : toasts[i].style = "Success"
ShownFailure == \E i \in 1..Len(toasts) : toasts[i].style = "Failure"

ExactlyOneOutcome ==
    \/ ShownCancelled /\ ~ShownSuccess /\ ~ShownFailure
    \/ ~ShownCancelled /\ ShownSuccess /\ ~ShownFailure
    \/ ~ShownCancelled /\ ~ShownSuccess /\ ShownFailure

C17_Original ==
    /\ Terminated => ExactlyOneOutcome
    /\ ~(ShownSuccess /\ ShownFailure)

(***************************************************************************)
(* C17, amended: every external call returning or throwing, every run      *)
(* terminates.  It ends with exactly one of the three outcomes, except     *)
(* when the failure notification call of the top-level handler itself      *)
(* throws: then the promise of main rejects and the run ends with no       *)
(* failure notification (after a throwing success notification or          *)
(* cancelled status, with none of the three).  A notification counting as  *)
(* shown when its call returns, success and failure are never both shown.  *)
(***************************************************************************)
C17_TerminatesWithOneOutcomeUnlessHandlerThrows ==
    /\ <>Terminated
    /\ [](pc = "done" => ExactlyOneOutcome)
    /\ [](pc = "rejected" =>
            /\ error # NoError
            /\ ~ShownFailure
            /\ ~(ShownCancelled /\ ShownSuccess))
    /\ [](~(ShownSuccess /\ ShownFailure))

C17_Witness ==
    /\ pc = "done"
    /\ error.site = "notify"
    /\ clipboard # << >>
    /\ ShownFailure
    /\ ~ShownSuccess

====
